---- MODULE Spec2Model ----
(***************************************************************************)
(* Rate queries of internal/queries/rate.go.                               *)
(*                                                                         *)
(* RunRateQuery builds the orderbook-rate SQL, submits it to the warehouse *)
(* and drains the cursor.  createRateTradeQuery and createRateQuery build  *)
(* the two SQL statements.  A statement is modelled by its clauses (the    *)
(* interpolated values included), and the warehouse evaluates the clauses  *)
(* over small tables of trades and offer events.                           *)
(***************************************************************************)
EXTENDS Integers, Sequences, FiniteSets, TLC

VARIABLES
    \* ---- one RunRateQuery call (Spec) ----
    pc,          \* "idle" | "loop" | "done": position inside one RunRateQuery call
    args,        \* the call's arguments
    query,       \* local `query`
    submitted,   \* the statements the warehouse received during this call
    emitted,     \* the rows the cursor has handed out so far
    nextCalls,   \* number of it.Next calls of this call
    cursor,      \* "none" | "open" | "done" | "failed"
    results,     \* local `results`
    ret,         \* what the call returned: [results, err]
    \* ---- the builders applied to a warehouse (SpecQ) ----
    qargs,       \* the arguments handed to the builders
    builder,     \* "trade" | "orderbook": the builder this run exercises
    trades,      \* rows of history_trades (joined with assets and ledgers)
    offers,      \* rows of fact_offer_events (joined with offers, markets, ledgers)
    qpc,         \* "load" | "trade" | "orderbook"
    stmt,        \* the statement built for (source, dest)
    fwd,         \* outcome of the statement built for (source, dest)
    rev          \* outcome of the statement built for (dest, source)

execVars == <<pc, args, query, submitted, emitted, nextCalls, cursor, results, ret>>
qVars == <<qargs, builder, trades, offers, qpc, stmt, fwd, rev>>
vars == <<pc, args, query, submitted, emitted, nextCalls, cursor, results, ret,
          qargs, builder, trades, offers, qpc, stmt, fwd, rev>>

(***************************************************************************)
(* Bounds and domains                                                      *)
(***************************************************************************)
MaxRows == 3
MaxTrades == 2
MaxOffers == 3

Codes == {"NGNT", "EURT"}
Issuers == {"GA", "GB"}
Asset == [Code : Codes, Issuer : Issuers]
Timestamps == {"", "1000", "2000"}
AggregateBys == {"ledger", "day"}
Ledgers == {1, 2}
\* the SQL NULL as a rate; a non-null rate is a fraction <<numerator, denominator>>
NULL == <<>>
None == <<>>

\* Unix seconds written as a decimal string, as TIMESTAMP_SECONDS(%s) reads them.
Seconds(s) == CASE s = "1000" -> 1000 [] s = "2000" -> 2000

\* close time of a ledger; both ledgers close on the same calendar day
ClosedAt(l) == (2 * l - 1) * 1000

(***************************************************************************)
(* Predicates interpolated into the SQL                                    *)
(***************************************************************************)
Eq(col, val) == [op |-> "=", col |-> col, val |-> val]
And(l, r) == [op |-> "AND", l |-> l, r |-> r]
Or(l, r) == [op |-> "OR", l |-> l, r |-> r]

RECURSIVE Holds(_, _)
Holds(p, env) ==
    CASE p.op = "=" -> env[p.col] = p.val
      [] p.op = "AND" -> Holds(p.l, env) /\ Holds(p.r, env)
      [] p.op = "OR" -> Holds(p.l, env) \/ Holds(p.r, env)

queryLimit == 100

getTitleField(sequenceField, closedAtField, aggregateBy) ==
    IF aggregateBy = "ledger"
    THEN [format |-> "Ledger %d", col |-> sequenceField]
    ELSE [format |-> "%Y-%m-%d", col |-> closedAtField]

\* the value of the title expression on a joined row
TitleOf(titleField, env) ==
    IF titleField.format = "Ledger %d"
    THEN <<"Ledger", env[titleField.col]>>
    ELSE <<"Day", env[titleField.col] \div 86400>>

TimeFilterWantedEither(startUnixTimestamp, endUnixTimestamp) ==
    startUnixTimestamp # "" \/ endUnixTimestamp # ""

TimeFilterWanted(startUnixTimestamp, endUnixTimestamp) ==
    startUnixTimestamp # "" /\ endUnixTimestamp # ""

Between(startUnixTimestamp, endUnixTimestamp) ==
    <<"L.closed_at", startUnixTimestamp, endUnixTimestamp>>

(***************************************************************************)
(* createRateTradeQuery                                                    *)
(***************************************************************************)
baseAssetMatch(source, dest) ==
    Or(And(Eq("B.asset_code", source.Code), Eq("B.asset_issuer", source.Issuer)),
       And(Eq("C.asset_code", dest.Code), Eq("C.asset_issuer", dest.Issuer)))

baseAssetSelect == "SUM(T.counter_amount)/SUM(T.base_amount)"

counterAssetMatch(source, dest) ==
    Or(And(Eq("C.asset_code", source.Code), Eq("C.asset_issuer", source.Issuer)),
       And(Eq("B.asset_code", dest.Code), Eq("B.asset_issuer", dest.Issuer)))

counterAssetSelect == "SUM(T.base_amount)/SUM(T.counter_amount)"

TradeWhereCodeOnly(source, dest) ==
    Or(Or(Eq("B.asset_code", source.Code), Eq("C.asset_code", dest.Code)),
       Or(Eq("C.asset_code", source.Code), Eq("B.asset_code", dest.Code)))

TradeWhere(source, dest) ==
    Or(baseAssetMatch(source, dest), counterAssetMatch(source, dest))

createRateTradeQuery(source, dest, startUnixTimestamp, endUnixTimestamp, aggregateBy) ==
    LET q == [from |-> "history_trades",
              title |-> getTitleField("L.sequence", "L.closed_at", aggregateBy),
              cases |-> << [when |-> baseAssetMatch(source, dest),
                            then |-> baseAssetSelect],
                           [when |-> counterAssetMatch(source, dest),
                            then |-> counterAssetSelect] >>,
              where |-> TradeWhere(source, dest),
              between |-> None,
              groupBy |-> <<"title", "B.asset_code", "B.asset_issuer",
                            "C.asset_code", "C.asset_issuer">>,
              limit |-> queryLimit]
    IN  IF TimeFilterWanted(startUnixTimestamp, endUnixTimestamp)
        THEN [q EXCEPT !.between = Between(startUnixTimestamp, endUnixTimestamp)]
        ELSE q

(***************************************************************************)
(* createRateQuery                                                         *)
(***************************************************************************)
normalMatch(source, dest) ==
    And(And(Eq("M.base_code", source.Code), Eq("M.base_issuer", source.Issuer)),
        And(Eq("M.counter_code", dest.Code), Eq("M.counter_issuer", dest.Issuer)))

reverseMatch(source, dest) ==
    And(And(Eq("M.base_code", dest.Code), Eq("M.base_issuer", dest.Issuer)),
        And(Eq("M.counter_code", source.Code), Eq("M.counter_issuer", source.Issuer)))

rateCalculation == "(orderbooks.askPrices[OFFSET(0)]+orderbooks.bidPrices[OFFSET(0)])/2"

inverseRateCalculation ==
    "1/((orderbooks.askPrices[OFFSET(0)]+orderbooks.bidPrices[OFFSET(0)])/2)"

\* a CASE without ELSE yields NULL when no WHEN matches
noElse == "NULL"

baseIsSource(source) ==
    And(Eq("orderbooks.base_code", source.Code),
        Eq("orderbooks.base_issuer", source.Issuer))

NoRateFilter == None

RateFilter == <<rateCalculation, "IS NOT NULL">>

createRateQuery(source, dest, startUnixTimestamp, endUnixTimestamp, aggregateBy) ==
    LET q == [from |-> "fact_offer_events",
              title |-> getTitleField("E.ledger_id", "L.closed_at", aggregateBy),
              where |-> Or(normalMatch(source, dest), reverseMatch(source, dest)),
              between |-> None,
              groupBy |-> <<"title", "M.base_code", "M.base_issuer",
                            "M.counter_code", "M.counter_issuer">>,
              cases |-> << [when |-> baseIsSource(source), then |-> rateCalculation] >>,
              else |-> inverseRateCalculation,
              outerWhere |-> RateFilter,
              limit |-> queryLimit]
    IN  IF TimeFilterWanted(startUnixTimestamp, endUnixTimestamp)
        THEN [q EXCEPT !.between = Between(startUnixTimestamp, endUnixTimestamp)]
        ELSE q

(***************************************************************************)
(* The warehouse: joined rows and the evaluation of a statement            *)
(***************************************************************************)
Amounts == {<<1, 2>>, <<2, 1>>}
\* <<O.action, O.price>> of an offer: two bids and an ask
Quotes == {<<"b", 1>>, <<"b", 2>>, <<"s", 4>>}
A(code, issuer) == [Code |-> code, Issuer |-> issuer]

\* the <<base, counter>> pairs the trades of the warehouse are between: a pair in
\* both orientations, a pair sharing one asset with it, and an unrelated pair
TradedPairs ==
    { <<A("NGNT", "GA"), A("EURT", "GB")>>, <<A("EURT", "GB"), A("NGNT", "GA")>>,
      <<A("NGNT", "GA"), A("NGNT", "GB")>>, <<A("NGNT", "GB"), A("EURT", "GA")>> }

\* dim_markets: one pair of assets listed in both orientations
Markets ==
    { <<A("NGNT", "GA"), A("EURT", "GB")>>, <<A("EURT", "GB"), A("NGNT", "GA")>> }

\* history_trades T JOIN history_assets B, C JOIN history_ledgers L
TradeRows ==
    { ("L.sequence" :> l) @@ ("L.closed_at" :> ClosedAt(l))
      @@ ("B.asset_code" :> m[1].Code) @@ ("B.asset_issuer" :> m[1].Issuer)
      @@ ("C.asset_code" :> m[2].Code) @@ ("C.asset_issuer" :> m[2].Issuer)
      @@ ("T.base_amount" :> a[1]) @@ ("T.counter_amount" :> a[2])
      : l \in Ledgers, m \in TradedPairs, a \in Amounts }

\* fact_offer_events E JOIN dim_offers O JOIN dim_markets M JOIN history_ledgers L
OfferRows ==
    { ("E.ledger_id" :> l) @@ ("L.closed_at" :> ClosedAt(l))
      @@ ("M.base_code" :> m[1].Code) @@ ("M.base_issuer" :> m[1].Issuer)
      @@ ("M.counter_code" :> m[2].Code) @@ ("M.counter_issuer" :> m[2].Issuer)
      @@ ("O.action" :> o[1]) @@ ("O.price" :> o[2])
      : l \in Ledgers, m \in Markets, o \in Quotes }

\* WHERE ... [AND L.closed_at BETWEEN TIMESTAMP_SECONDS(s) AND TIMESTAMP_SECONDS(e)]
Filtered(q, rows) ==
    { e \in rows :
        /\ Holds(q.where, e)
        /\ \/ q.between = None
           \/ /\ e[q.between[1]] >= Seconds(q.between[2])
              /\ e[q.between[1]] <= Seconds(q.between[3]) }

\* GROUP BY title, <leg columns>
GroupKey(q, e) ==
    [i \in 1..Len(q.groupBy) |->
        IF q.groupBy[i] = "title" THEN TitleOf(q.title, e) ELSE e[q.groupBy[i]]]

Group(q, rows, k) == { e \in rows : GroupKey(q, e) = k }

RECURSIVE Sum(_, _)
Sum(G, col) ==
    IF G = {} THEN 0
    ELSE LET e == CHOOSE x \in G : TRUE IN e[col] + Sum(G \ {e}, col)

Max(S) == CHOOSE x \in S : \A y \in S : y <= x
Min(S) == CHOOSE x \in S : \A y \in S : x <= y

\* ARRAY_AGG(CASE WHEN O.action=a THEN O.price END IGNORE NULLS ...)
PricesOf(G, action) == { e["O.price"] : e \in { x \in G : x["O.action"] = action } }

\* the value of a rate expression on a group
Aggregate(expr, G) ==
    CASE expr = baseAssetSelect ->
            <<Sum(G, "T.counter_amount"), Sum(G, "T.base_amount")>>
      [] expr = counterAssetSelect ->
            <<Sum(G, "T.base_amount"), Sum(G, "T.counter_amount")>>
      [] expr = rateCalculation ->
            IF PricesOf(G, "b") = {} \/ PricesOf(G, "s") = {} THEN NULL
            ELSE <<Min(PricesOf(G, "s")) + Max(PricesOf(G, "b")), 2>>
      [] expr = inverseRateCalculation ->
            IF PricesOf(G, "b") = {} \/ PricesOf(G, "s") = {} THEN NULL
            ELSE <<2, Min(PricesOf(G, "s")) + Max(PricesOf(G, "b"))>>
      [] expr = noElse -> NULL

\* CASE WHEN .. THEN .. [WHEN .. THEN ..] [ELSE ..] END, on the columns of a group
RECURSIVE CaseExpr(_, _, _)
CaseExpr(cases, else, e) ==
    IF cases = <<>> THEN else
    ELSE IF Holds(cases[1].when, e) THEN cases[1].then
    ELSE CaseExpr(Tail(cases), else, e)

\* the columns of the orderbooks stage, as the outer SELECT names them
Outer(e) ==
    e @@ ("orderbooks.base_code" :> e["M.base_code"])
      @@ ("orderbooks.base_issuer" :> e["M.base_issuer"])

\* the rows a statement selects, one per group, before ORDER BY and LIMIT
Selected(q, table) ==
    LET rows == Filtered(q, table)
        keys == { GroupKey(q, e) : e \in rows }
        Row(k) ==
            LET G == Group(q, rows, k)
                e == CHOOSE x \in G : TRUE
            IN  IF q.from = "history_trades"
                THEN [title |-> TitleOf(q.title, e), key |-> k,
                      rate |-> Aggregate(CaseExpr(q.cases, noElse, e), G)]
                ELSE [title |-> TitleOf(q.title, e), key |-> k,
                      rate |-> Aggregate(CaseExpr(q.cases, q.else, Outer(e)), G),
                      mid |-> Aggregate(rateCalculation, G)]
        all == { Row(k) : k \in keys }
    IN  IF q.from = "history_trades" \/ q.outerWhere = None THEN all
        ELSE { r \in all : r.mid # NULL }

TitleLess(a, b) == a[2] < b[2]

\* ORDER BY title ASC: every arrangement of the rows with titles not descending
Ordered(S) ==
    { s \in [1..Cardinality(S) -> S] :
        /\ \A x \in S : \E i \in DOMAIN s : s[i] = x
        /\ \A i, j \in DOMAIN s : i < j => ~TitleLess(s[j].title, s[i].title) }

Limit(s, n) == IF Len(s) <= n THEN s ELSE SubSeq(s, 1, n)

\* ARRAY_AGG over no non-null value is NULL or an empty array; OFFSET(0) of an
\* empty array fails the statement
OffsetFails(q, table, emptyAgg) ==
    /\ q.from = "fact_offer_events"
    /\ emptyAgg = "empty"
    /\ \E e \in Filtered(q, table) :
          LET G == Group(q, Filtered(q, table), GroupKey(q, e))
          IN  PricesOf(G, "b") = {} \/ PricesOf(G, "s") = {}

\* TIMESTAMP_SECONDS() without an argument does not parse
Malformed(q) == q.between # None /\ (q.between[2] = "" \/ q.between[3] = "")

\* the possible outcomes of running statement q
Outcomes(q, table, emptyAgg) ==
    IF Malformed(q)
    THEN { [err |-> "Syntax error", rows |-> <<>>] }
    ELSE IF OffsetFails(q, table, emptyAgg)
    THEN { [err |-> "Array index 0 is out of bounds", rows |-> <<>>] }
    ELSE { [err |-> "", rows |-> Limit(s, q.limit)] : s \in Ordered(Selected(q, table)) }

(***************************************************************************)
(* SpecQ: the two builders applied to a warehouse                          *)
(***************************************************************************)
QArgs ==
    [source : Asset, dest : Asset, startUnixTimestamp : {"", "1000"},
     endUnixTimestamp : {"", "2000"}, aggregateBy : AggregateBys]

idleExec ==
    /\ pc = "idle" /\ args = None /\ query = None /\ submitted = <<>>
    /\ emitted = <<>> /\ nextCalls = 0 /\ cursor = "none" /\ results = <<>>
    /\ ret = None

InitQ ==
    /\ qargs \in QArgs
    /\ builder \in {"trade", "orderbook"}
    /\ trades = {} /\ offers = {}
    /\ qpc = "load" /\ stmt = None /\ fwd = None /\ rev = None
    /\ idleExec

LoadTrade(t) ==
    /\ qpc = "load" /\ builder = "trade"
    /\ Cardinality(trades) < MaxTrades
    /\ t \notin trades
    /\ trades' = trades \cup {t}
    /\ UNCHANGED <<qargs, builder, offers, qpc, stmt, fwd, rev>>
    /\ UNCHANGED execVars

LoadOffer(o) ==
    /\ qpc = "load" /\ builder = "orderbook"
    /\ Cardinality(offers) < MaxOffers
    /\ o \notin offers
    /\ offers' = offers \cup {o}
    /\ UNCHANGED <<qargs, builder, trades, qpc, stmt, fwd, rev>>
    /\ UNCHANGED execVars

TradeQuery(a) ==
    createRateTradeQuery(a.source, a.dest, a.startUnixTimestamp,
                         a.endUnixTimestamp, a.aggregateBy)

RateQuery(a) ==
    createRateQuery(a.source, a.dest, a.startUnixTimestamp,
                    a.endUnixTimestamp, a.aggregateBy)

Swapped(a) == [a EXCEPT !.source = a.dest, !.dest = a.source]

RunTradeQuery ==
    /\ qpc = "load" /\ builder = "trade"
    /\ stmt' = TradeQuery(qargs)
    /\ fwd' \in Outcomes(stmt', trades, "null")
    /\ rev' \in Outcomes(TradeQuery(Swapped(qargs)), trades, "null")
    /\ qpc' = "trade"
    /\ UNCHANGED <<qargs, builder, trades, offers>>
    /\ UNCHANGED execVars

RunOrderbookQuery ==
    /\ qpc = "load" /\ builder = "orderbook"
    /\ stmt' = RateQuery(qargs)
    /\ \E emptyAgg \in {"null", "empty"} :
          /\ fwd' \in Outcomes(stmt', offers, emptyAgg)
          /\ rev' \in Outcomes(RateQuery(Swapped(qargs)), offers, emptyAgg)
    /\ qpc' = "orderbook"
    /\ UNCHANGED <<qargs, builder, trades, offers>>
    /\ UNCHANGED execVars

NextQ ==
    \/ \E t \in TradeRows : LoadTrade(t)
    \/ \E o \in OfferRows : LoadOffer(o)
    \/ RunTradeQuery
    \/ RunOrderbookQuery

SpecQ == InitQ /\ [][NextQ]_vars

(***************************************************************************)
(* Spec: RunRateQuery against a warehouse client                           *)
(***************************************************************************)
Args ==
    [source : Asset, dest : Asset, startUnixTimestamp : Timestamps,
     endUnixTimestamp : Timestamps, aggregateBy : AggregateBys]

\* rows a cursor can decode into RateResult
RateResult ==
    { [title |-> <<"Ledger", 1>>, rate |-> <<3, 1>>],
      [title |-> <<"Ledger", 2>>, rate |-> <<1, 2>>],
      [title |-> <<"Ledger", 2>>, rate |-> NULL] }

Causes == {"googleapi: Error 400", "context canceled"}

offQ ==
    /\ qargs = None /\ builder = "none" /\ trades = {} /\ offers = {}
    /\ qpc = "off" /\ stmt = None /\ fwd = None /\ rev = None

Init == idleExec /\ offQ

\* line 12: the statement RunRateQuery builds
BuildQueryFromTrades(a) == TradeQuery(a)

BuildQuery(a) == RateQuery(a)

\* runQuery: hands the statement to the warehouse client, once
runQuery(q, log) == Append(log, q)

\* line 15
ExecuteErrorNoSql(q, cause) ==
    [format |-> "error running query \n%v", cause |-> cause]

ExecuteError(q, cause) ==
    [format |-> "error running query \n%s\n%v", sql |-> q, cause |-> cause]

\* line 24
DecodeError(cause) ==
    [format |-> "error parsing results from query: %v", cause |-> cause]

\* the nil error
nil == [format |-> ""]

KeepPartial(rs) == rs

\* line 24: nil is returned in place of the rows decoded so far
DecodeFailResults(rs) == <<>>

Prepend(rs, res) == <<res>> \o rs

\* line 27
AppendResult(rs, res) == Append(rs, res)

\* lines 11-13, 18: the statement is built and accepted; the cursor is open
CallSubmitted(a) ==
    /\ pc = "idle"
    /\ args' = a
    /\ query' = BuildQuery(a)
    /\ submitted' = runQuery(query', <<>>)
    /\ cursor' = "open"
    /\ emitted' = <<>> /\ nextCalls' = 0 /\ results' = <<>>
    /\ ret' = None
    /\ pc' = "loop"
    /\ UNCHANGED qVars

\* lines 11-16: the warehouse rejects the statement
CallRejected(a, cause) ==
    /\ pc = "idle"
    /\ args' = a
    /\ query' = BuildQuery(a)
    /\ submitted' = runQuery(query', <<>>)
    /\ cursor' = "none"
    /\ emitted' = <<>> /\ nextCalls' = 0 /\ results' = <<>>
    /\ ret' = [results |-> <<>>, err |-> ExecuteError(query', cause)]
    /\ pc' = "done"
    /\ UNCHANGED qVars

\* lines 19-28: it.Next decodes a row
NextRow(res) ==
    /\ pc = "loop"
    /\ Len(emitted) < MaxRows
    /\ emitted' = Append(emitted, res)
    /\ nextCalls' = nextCalls + 1
    /\ results' = AppendResult(results, res)
    /\ UNCHANGED <<pc, args, query, submitted, cursor, ret>>
    /\ UNCHANGED qVars

\* lines 21-22, 30: it.Next answers iterator.Done
NextDone ==
    /\ pc = "loop"
    /\ nextCalls' = nextCalls + 1
    /\ cursor' = "done"
    /\ ret' = [results |-> results, err |-> nil]
    /\ pc' = "done"
    /\ UNCHANGED <<args, query, submitted, emitted, results>>
    /\ UNCHANGED qVars

\* lines 23-24: it.Next fails to decode the next row
NextFail(cause) ==
    /\ pc = "loop"
    /\ nextCalls' = nextCalls + 1
    /\ cursor' = "failed"
    /\ ret' = [results |-> DecodeFailResults(results), err |-> DecodeError(cause)]
    /\ pc' = "done"
    /\ UNCHANGED <<args, query, submitted, emitted, results>>
    /\ UNCHANGED qVars

Next ==
    \/ \E a \in Args : CallSubmitted(a)
    \/ \E a \in Args, cause \in Causes : CallRejected(a, cause)
    \/ \E res \in RateResult : NextRow(res)
    \/ NextDone
    \/ \E cause \in Causes : NextFail(cause)

Spec == Init /\ [][Next]_vars

(***************************************************************************)
(* Properties of RunRateQuery (checked under Spec)                         *)
(***************************************************************************)
Contains(seq, x) == \E i \in DOMAIN seq : seq[i] = x

\* C1: when the cursor fails to decode a row after k-1 rows were decoded, the
\* call returns an error and nil instead of the k-1 rows, and the failing Next
\* is the last Next of the call.
C1_DecodeFailureDiscardsRows ==
    cursor = "failed" =>
        /\ pc = "done"
        /\ ret.err # nil
        /\ ret.results = <<>>
        /\ nextCalls = Len(emitted) + 1

C1_Witness ==
    /\ cursor = "failed" /\ pc = "done"
    /\ Len(emitted) >= 1 /\ Len(results) >= 1
    /\ ret.results = <<>>

\* C2: when the statement is accepted and the cursor hands out n rows and then
\* signals exhaustion, the call returns, with no error, exactly those n rows in
\* the order the cursor handed them out.
C2_DrainReturnsEmittedRows ==
    cursor = "done" =>
        /\ pc = "done"
        /\ ret.err = nil
        /\ ret.results = emitted
        /\ nextCalls = Len(emitted) + 1

C2_Witness ==
    /\ cursor = "done" /\ pc = "done"
    /\ Len(emitted) = MaxRows
    /\ emitted[1] # emitted[2]
    /\ ret.results = emitted

\* C3: the statement is submitted exactly once per call; when the submission
\* fails the call returns at once an error holding the submitted SQL and the
\* cause, returns no rows, does not submit again and never reads a cursor.
C3_SubmitOnceAndFailFast ==
    /\ pc # "idle" => submitted = <<query>>
    /\ (pc = "done" /\ cursor = "none") =>
          /\ "sql" \in DOMAIN ret.err /\ ret.err.sql = submitted[1]
          /\ "cause" \in DOMAIN ret.err /\ ret.err.cause \in Causes
          /\ ret.results = <<>>
          /\ nextCalls = 0 /\ emitted = <<>>

C3_Witness ==
    /\ pc = "done" /\ cursor = "none"
    /\ Len(submitted) = 1 /\ ret.err = ExecuteError(query, "context canceled")
    /\ nextCalls = 0

\* C10: whatever the arguments, the statement RunRateQuery submits is the one
\* createRateQuery builds from them, never the one createRateTradeQuery builds,
\* also after a failure (no second statement is submitted).
C10_OnlyOrderbookQuerySubmitted ==
    pc # "idle" =>
        /\ submitted = << createRateQuery(args.source, args.dest,
                             args.startUnixTimestamp, args.endUnixTimestamp,
                             args.aggregateBy) >>
        /\ ~Contains(submitted,
                     createRateTradeQuery(args.source, args.dest,
                             args.startUnixTimestamp, args.endUnixTimestamp,
                             args.aggregateBy))

C10_Witness ==
    /\ pc = "done" /\ cursor \in {"none", "failed"}
    /\ args.startUnixTimestamp # "" /\ args.endUnixTimestamp # ""
    /\ args.aggregateBy = "day"
    /\ submitted = <<RateQuery(args)>>

(***************************************************************************)
(* Properties of the two statements (checked under SpecQ)                  *)
(***************************************************************************)
\* the <<base, counter>> assets of the group a returned row stands for
LegsOf(r) == <<A(r.key[2], r.key[3]), A(r.key[4], r.key[5])>>

RequestedPair == {<<qargs.source, qargs.dest>>, <<qargs.dest, qargs.source>>}

Rows(out) == { out.rows[i] : i \in DOMAIN out.rows }

Reciprocal(x, y) == x # NULL /\ y # NULL /\ x[1] * y[1] = x[2] * y[2]

\* C4: a trade contributes to a returned rate only if its legs are the requested
\* pair, base = source and counter = dest or the other way round, an asset
\* matching on code and issuer together.
C4_OnlyRequestedPairContributes ==
    (qpc = "trade" /\ qargs.source # qargs.dest) =>
        \A r \in Rows(fwd) : LegsOf(r) \in RequestedPair

\* C5: for distinct source and dest, a group returned by the statement for
\* (source, dest) and by the one for (dest, source) has reciprocal rates, and
\* its rate is in destination units per source unit: its legs are the
\* requested pair.
C5_ReciprocalDestPerSource ==
    (qpc \in {"trade", "orderbook"} /\ qargs.source # qargs.dest) =>
        \A r \in Rows(fwd) : \A r2 \in Rows(rev) :
            r.key = r2.key =>
                /\ Reciprocal(r.rate, r2.rate)
                /\ LegsOf(r) \in RequestedPair

\* C6: a returned sequence has at most one row per bucket, so its titles are
\* strictly ascending, also when a bucket holds data of the requested pair in
\* both orientations (stated here for the rows of the requested pair).
C6_TitlesStrictlyAscending ==
    (qpc \in {"trade", "orderbook"} /\ qargs.source # qargs.dest) =>
        \A i, j \in DOMAIN fwd.rows :
            (i < j /\ LegsOf(fwd.rows[i]) \in RequestedPair
                   /\ LegsOf(fwd.rows[j]) \in RequestedPair)
                => TitleLess(fwd.rows[i].title, fwd.rows[j].title)

\* C7: either builder emits the close-time BETWEEN filter exactly when
\* startTime and endTime are both non-empty, with these two values as lower and
\* upper bound; otherwise no filter is emitted; and the rest of the statement
\* is the statement built without time bounds.
C7_TimeFilterIffBothBounds ==
    qpc \in {"trade", "orderbook"} =>
        LET st == qargs.startUnixTimestamp
            en == qargs.endUnixTimestamp
            bare == [qargs EXCEPT !.startUnixTimestamp = "", !.endUnixTimestamp = ""]
        IN  /\ (st # "" /\ en # "") => stmt.between = <<"L.closed_at", st, en>>
            /\ (st = "" \/ en = "") => stmt.between = None
            /\ [stmt EXCEPT !.between = None] =
                  IF qpc = "trade" THEN TradeQuery(bare) ELSE RateQuery(bare)
            /\ TradeQuery(bare).between = None /\ RateQuery(bare).between = None

C7_Witness ==
    /\ qpc \in {"trade", "orderbook"}
    /\ qargs.startUnixTimestamp = "1000" /\ qargs.endUnixTimestamp = "2000"
    /\ stmt.between = <<"L.closed_at", "1000", "2000">>
    /\ Len(fwd.rows) >= 1
    /\ \E t \in trades \cup offers : t["L.closed_at"] > 2000

\* C8: every row the orderbook statement returns has a non-null rate and stands
\* for a bucket that holds at least one bid price and at least one ask price.
C8_OrderbookRowsHaveBidAndAsk ==
    qpc = "orderbook" =>
        \A r \in Rows(fwd) \cup Rows(rev) :
            /\ r.rate # NULL
            /\ \E o \in offers : TitleOf(stmt.title, o) = r.title /\ o["O.action"] = "b"
            /\ \E o \in offers : TitleOf(stmt.title, o) = r.title /\ o["O.action"] = "s"

\* a complete bucket is returned while a bucket of the pair without an ask is absent
C8_Witness ==
    /\ qpc = "orderbook" /\ fwd.err = "" /\ qargs.source # qargs.dest
    /\ Len(fwd.rows) >= 1
    /\ \E o \in Filtered(stmt, offers) :
          /\ o["O.action"] = "b"
          /\ \A r \in Rows(fwd) : r.title # TitleOf(stmt.title, o)

\* a trade whose legs satisfy neither WHEN predicate of the CASE expression
Unmatched(t) ==
    /\ ~Holds(baseAssetMatch(qargs.source, qargs.dest), t)
    /\ ~Holds(counterAssetMatch(qargs.source, qargs.dest), t)

InRange(t) ==
    stmt.between = None
    \/ (t["L.closed_at"] >= Seconds(stmt.between[2])
        /\ t["L.closed_at"] <= Seconds(stmt.between[3]))

\* C9 as stated: a group of trades matching neither orientation predicate is
\* kept in the result, with a null rate.
C9_UnmatchedGroupKeptWithNull ==
    (qpc = "trade" /\ qargs.source # qargs.dest) =>
        \A t \in trades :
            (Unmatched(t) /\ InRange(t)) =>
                \E r \in Rows(fwd) : r.key = GroupKey(stmt, t) /\ r.rate = NULL

\* C9 amended: a group of trades matching neither orientation predicate is
\* removed by the WHERE clause, so it is absent from the result, and no
\* returned row has the null rate of an unmatched CASE.
C9_UnmatchedGroupDropped ==
    qpc = "trade" =>
        /\ \A t \in trades :
              Unmatched(t) => \A r \in Rows(fwd) : r.key # GroupKey(stmt, t)
        /\ \A r \in Rows(fwd) : r.rate # NULL

C9_Witness ==
    /\ qpc = "trade" /\ qargs.source # qargs.dest
    /\ Len(fwd.rows) >= 1
    /\ \E t \in trades :
          /\ Unmatched(t) /\ InRange(t)
          /\ \A r \in Rows(fwd) : r.key # GroupKey(stmt, t)

====
